---- MODULE Spec2Model ----
(***************************************************************************)
(* Q-learning loop coupled to a 1-D active-spin simulation                 *)
(* (Spin_Example/paper_example.ipynb).                                     *)
(*                                                                         *)
(* Reals are fixed-point integers: a length x is the integer x * Scale.    *)
(* A uniform draw is quantised: u in [0,1) is u * DrawScale for the        *)
(* epsilon test and u * UDen for the initial layout.  The network output   *)
(* for one descriptor is a pair of levels in 0..QScale, level QScale being *)
(* the cost 1; the parameters are the table of these outputs.              *)
(***************************************************************************)
EXTENDS Integers, Sequences, FiniteSets, TLC

\* ---- bounds of the model ------------------------------------------------
N == 3
NumSteps == 2
MaxKey == 1

\* ---- units ----------------------------------------------------------------
Scale == 2000
UDen == 20
DrawScale == 10
QScale == 2
DeltaTInv == 10

\* ---- parameters (second code cell) ---------------------------------------
L == 10 * Scale
delta_x == 1 * Scale
v1 == Scale \div 10
v2 == 1 * Scale
num_actions == 2
EpsilonChoices == {0, 1}

Particles == 0 .. (N - 1)
Actions == 0 .. (num_actions - 1)
Keys == 0 .. MaxKey
UGrid == {0, 2, 19}
QueryGrid == {0, 1, 2, 10, 19}
SpinValues == {-1, 1}
Descriptors == SpinValues \X {-1, 0, 1}
QLevels == 0 .. QScale

VARIABLES positions, spins, velocities, state, key, epsilon, cost,
          t, i, pc, average_magnetization,
          sweep_positions, sweep_spins, frame, draws, twin, query

vars == <<positions, spins, velocities, state, key, epsilon, cost,
          t, i, pc, average_magnetization,
          sweep_positions, sweep_spins, frame, draws, twin, query>>

\* ---- jax primitives -------------------------------------------------------
\* jax.random.uniform(key): a pure function of the key.
uniform(k) == (3 * k) % DrawScale

\* a draw from a generator that is not seeded by the key
DrawsUnseeded(k) == {uniform(j) : j \in Keys}

\* The values one call jax.random.uniform(key) can produce.
Draws(k) == {uniform(k)}

\* the key is split after every draw
KeyAfterDrawSplit(k) == (k + 1) % (MaxKey + 1)

\* update_spin reads the global key and never rebinds it.
KeyAfterDraw(k) == k

\* arr.at[j].set(v)
at_set(arr, j, v) == [arr EXCEPT ![j] = v]

\* jnp.sign
sign(x) == IF x > 0 THEN 1 ELSE IF x < 0 THEN -1 ELSE 0

RECURSIVE sum(_)
\* jnp.sum over a sequence
sum(s) == IF s = <<>> THEN 0 ELSE Head(s) + sum(Tail(s))

\* index of the last occurrence of the minimum
argmin_last(q) ==
    CHOOSE a \in Actions :
        /\ \A b \in Actions : q[a] <= q[b]
        /\ \A b \in Actions : b > a => q[b] > q[a]

\* jnp.argmin: index of the first occurrence of the minimum
argmin(q) ==
    CHOOSE a \in Actions :
        /\ \A b \in Actions : q[a] <= q[b]
        /\ \A b \in Actions : b < a => q[b] > q[a]

\* ---- neighbour query ------------------------------------------------------
\* the range with its right end excluded
mask_open(p, pos) ==
    LET left == pos[p] - delta_x
        right == pos[p] + delta_x
    IN {j \in Particles : pos[j] >= left /\ pos[j] < right}

\* mask = (positions >= left) & (positions <= right)
mask(p, pos) ==
    LET left == pos[p] - delta_x
        right == pos[p] + delta_x
    IN {j \in Particles : pos[j] >= left /\ pos[j] <= right}

RECURSIVE boolean_index(_, _, _)
\* spins[mask]: the selected entries in index order
boolean_index(sp, m, j) ==
    IF j = N THEN <<>>
    ELSE (IF j \in m THEN <<sp[j]>> ELSE <<>>) \o boolean_index(sp, m, j + 1)

get_neighbors(p, pos, sp) == boolean_index(sp, mask(p, pos), 0)

\* ---- Q network ------------------------------------------------------------
\* Q.apply_fn(Q.params, state)
apply_fn(params, d) == params[d]

\* [spins[i], sign(sum(get_neighbors(i, positions, spins)))]
descriptor(p, pos, sp) == <<sp[p], sign(sum(get_neighbors(p, pos, sp)))>>

\* one optimiser step on mean((apply_fn(params, d) - target)^2): every output
\* of d moves one level toward its target
apply_gradients(params, d, target) ==
    [params EXCEPT ![d] =
        [a \in Actions |-> params[d][a] + sign(target[a] - params[d][a])]]

\* ---- action selection -----------------------------------------------------
\* the values the exploration branch can return for spin s
ExploreOutcomes(s) == {-s}

\* a flip written for spins stored as 0/1
greedy_spin_binary(s, action) == IF action = 0 THEN s ELSE 1 - s

\* the spin for a greedy action
greedy_spin(s, action) == IF action = 0 THEN s ELSE -s

\* jax.random.uniform(key) < epsilon
explores(u, eps) == u < eps

\* update_spin(i, spins, Q, epsilon); u is the draw, r the exploring return,
\* pos the global positions
update_spin(p, sp, pos, Q, eps, u, r) ==
    IF explores(u, eps)
    THEN r
    ELSE greedy_spin(sp[p], argmin(apply_fn(Q, descriptor(p, pos, sp))))

update_position(p, pos, sp, vel) == pos[p] + (vel[p] * sp[p]) \div DeltaTInv

\* the candidate position computed with the candidate spin
cost_function_moved(p, pos, sp, vel, Q, eps, u, r) ==
    LET neighbors_before == get_neighbors(p, pos, sp)
        new_spin == update_spin(p, sp, pos, Q, eps, u, r)
        new_position == update_position(p, pos, at_set(sp, p, new_spin), vel)
        neighbors_after == get_neighbors(p, at_set(pos, p, new_position),
                                         at_set(sp, p, new_spin))
    IN [neighbors_before |-> neighbors_before,
        new_spin |-> new_spin,
        new_position |-> new_position,
        neighbors_after |-> neighbors_after,
        cost |-> IF Len(neighbors_after) < Len(neighbors_before) THEN 1 ELSE 0]

\* cost_function(i, positions, spins): its locals and the cost it returns
cost_function(p, pos, sp, vel, Q, eps, u, r) ==
    LET neighbors_before == get_neighbors(p, pos, sp)
        new_spin == update_spin(p, sp, pos, Q, eps, u, r)
        new_position == update_position(p, pos, sp, vel)
        neighbors_after == get_neighbors(p, at_set(pos, p, new_position),
                                         at_set(sp, p, new_spin))
    IN [neighbors_before |-> neighbors_before,
        new_spin |-> new_spin,
        new_position |-> new_position,
        neighbors_after |-> neighbors_after,
        cost |-> IF Len(neighbors_after) < Len(neighbors_before) THEN 1 ELSE 0]

\* update_Q(i, state, cost): its locals and the state it returns
update_Q(p, Q, c, pos, sp) ==
    LET state_input == descriptor(p, pos, sp)
        q_values == apply_fn(Q, state_input)
        action == argmin(q_values)
        target == at_set(q_values, action, c * QScale)
    IN [state_input |-> state_input,
        q_values |-> q_values,
        action |-> action,
        target |-> target,
        state |-> apply_gradients(Q, state_input, target)]

\* a double buffer: every particle of a sweep reads the start of the sweep
loop_arrays_buffered(cur, snap) == snap

\* the arrays the body of the loop reads for one particle: the globals, which
\* the loop rebinds after every particle (snap is the start of the sweep)
loop_arrays(cur, snap) == cur

\* ---- one particle update: the body of `for i in range(N)` -----------------
loop_body(p, pos, sp, vel, Q, eps, u1, r1, u2, r2) ==
    LET cf == cost_function(p, pos, sp, vel, Q, eps, u1, r1)
        c == cf.cost
        uq == update_Q(p, Q, c, pos, sp)
        Q1 == uq.state
        s1 == update_spin(p, sp, pos, Q1, eps, u2, r2)
        sp1 == at_set(sp, p, s1)
        p1 == update_position(p, pos, sp1, vel)
    IN [spin |-> s1, position |-> p1, state |-> Q1, cost |-> c,
        frame |-> [valid |-> TRUE, i |-> p,
                   old_spin |-> sp[p], old_position |-> pos[p],
                   n_before |-> Len(cf.neighbors_before),
                   n_after |-> Len(cf.neighbors_after),
                   new_spin |-> cf.new_spin,
                   new_position |-> cf.new_position,
                   explored1 |-> explores(u1, eps),
                   outcomes1 |-> IF explores(u1, eps) THEN ExploreOutcomes(sp[p])
                                 ELSE {cf.new_spin},
                   state_input |-> uq.state_input,
                   q_values |-> uq.q_values,
                   action |-> uq.action,
                   explored2 |-> explores(u2, eps),
                   q_values2 |-> apply_fn(Q1, descriptor(p, pos, sp))]]

NoFrame ==
    [valid |-> FALSE, i |-> 0, old_spin |-> 1, old_position |-> 0,
     n_before |-> 0, n_after |-> 0, new_spin |-> 1, new_position |-> 0,
     explored1 |-> FALSE, outcomes1 |-> {}, state_input |-> <<1, 0>>,
     q_values |-> [a \in Actions |-> 0], action |-> 0,
     explored2 |-> FALSE, q_values2 |-> [a \in Actions |-> 0]]

\* the network outputs after q_net.init: the same pair for every descriptor
InitParams == {[d \in Descriptors |-> q0] : q0 \in [Actions -> {0, QScale}]}

NoQuery == [valid |-> FALSE, i |-> 0, result |-> <<>>]

TwinOf(pos, sp, Q, k, tt, ii, c) ==
    [positions |-> pos, spins |-> sp, state |-> Q, key |-> k,
     t |-> tt, i |-> ii, pc |-> c]

\* positions and velocities are drawn with the same key and shape, so both
\* come from the same uniform sample us[j]: positions[j] = us[j] * L and
\* velocities[j] = v1 + us[j] * (v2 - v1).  The outcome of the generator for
\* the seed (us, s0, k, q0) is left open; epsilon is the run's configuration.
Init ==
    \E us \in [Particles -> UGrid], s0 \in [Particles -> SpinValues],
       k \in Keys, e \in EpsilonChoices, q0 \in InitParams :
        /\ positions = [j \in Particles |-> (us[j] * L) \div UDen]
        /\ velocities = [j \in Particles |-> v1 + (us[j] * (v2 - v1)) \div UDen]
        /\ spins = s0
        /\ state = q0
        /\ key = k
        /\ epsilon = e
        /\ cost = 0
        /\ t = 0
        /\ i = 0
        /\ pc = "loop"
        /\ average_magnetization = [num |-> 0, den |-> 1]
        /\ sweep_positions = positions
        /\ sweep_spins = spins
        /\ frame = NoFrame
        /\ draws = {}
        /\ twin = TwinOf(positions, spins, state, key, 0, 0, "loop")
        /\ query = NoQuery

\* loop counters after the body for (t, i)
next_i(ii) == IF ii = N - 1 THEN 0 ELSE ii + 1
next_t(tt, ii) == IF ii = N - 1 THEN tt + 1 ELSE tt
next_pc(tt, ii) == IF ii = N - 1 /\ tt + 1 = NumSteps THEN "mean" ELSE "loop"

ParticleUpdate ==
    /\ pc = "loop"
    /\ LET snap_p == IF i = 0 THEN positions ELSE sweep_positions
           snap_s == IF i = 0 THEN spins ELSE sweep_spins
           k1 == KeyAfterDraw(key)
       IN \E u1 \in Draws(key), u2 \in Draws(k1),
             r1 \in ExploreOutcomes(spins[i]), r2 \in ExploreOutcomes(spins[i]) :
            \E b \in {loop_body(i, loop_arrays(positions, snap_p),
                                loop_arrays(spins, snap_s),
                                velocities, state, epsilon, u1, r1, u2, r2)} :
               /\ cost' = b.cost
               /\ state' = b.state
               /\ spins' = at_set(spins, i, b.spin)
               /\ positions' = at_set(positions, i, b.position)
               /\ frame' = b.frame
               /\ draws' = draws \cup {u1, u2}
               /\ key' = KeyAfterDraw(k1)
               /\ sweep_positions' = snap_p
               /\ sweep_spins' = snap_s
    /\ i' = next_i(i)
    /\ t' = next_t(t, i)
    /\ pc' = next_pc(t, i)
    /\ UNCHANGED <<velocities, epsilon, average_magnetization, twin, query>>

\* jnp.mean(spins), as a fraction
mean(sp) == [num |-> sum(boolean_index(sp, Particles, 0)), den |-> N]

Finish ==
    /\ pc = "mean"
    /\ average_magnetization' = mean(spins)
    /\ pc' = "done"
    /\ UNCHANGED <<positions, spins, velocities, state, key, epsilon, cost,
                   t, i, sweep_positions, sweep_spins, frame, draws, twin,
                   query>>

Next == ParticleUpdate \/ Finish

Spec == Init /\ [][Next]_vars

\* ---- a second run of the same notebook, same seed -------------------------
\* (the second run starts from the same arrays, parameters and key)
Synced == twin.t = t /\ twin.i = i /\ twin.pc = pc

TwinParticleUpdate ==
    /\ ~Synced
    /\ twin.pc = "loop"
    /\ LET k1 == KeyAfterDraw(twin.key)
       IN \E u1 \in Draws(twin.key), u2 \in Draws(k1),
             r1 \in ExploreOutcomes(twin.spins[twin.i]),
             r2 \in ExploreOutcomes(twin.spins[twin.i]) :
            \E b \in {loop_body(twin.i, twin.positions, twin.spins,
                                velocities, twin.state, epsilon, u1, r1, u2, r2)} :
               twin' = TwinOf(at_set(twin.positions, twin.i, b.position),
                              at_set(twin.spins, twin.i, b.spin),
                              b.state, KeyAfterDraw(k1),
                              next_t(twin.t, twin.i), next_i(twin.i),
                              next_pc(twin.t, twin.i))
    /\ UNCHANGED <<positions, spins, velocities, state, key, epsilon, cost,
                   t, i, pc, average_magnetization, sweep_positions,
                   sweep_spins, frame, draws, query>>

TwinFinish ==
    /\ ~Synced
    /\ twin.pc = "mean"
    /\ twin' = [twin EXCEPT !.pc = "done"]
    /\ UNCHANGED <<positions, spins, velocities, state, key, epsilon, cost,
                   t, i, pc, average_magnetization, sweep_positions,
                   sweep_spins, frame, draws, query>>

NextTwin ==
    \/ Synced /\ ParticleUpdate
    \/ Synced /\ Finish
    \/ TwinParticleUpdate
    \/ TwinFinish

SpecTwin == Init /\ [][NextTwin]_vars

\* ---- get_neighbors as a pure function of a layout -------------------------
InitQuery ==
    \E ks \in [Particles -> QueryGrid], s0 \in [Particles -> SpinValues] :
        /\ positions = [j \in Particles |-> (ks[j] * L) \div UDen]
        /\ velocities = [j \in Particles |-> v1 + (ks[j] * (v2 - v1)) \div UDen]
        /\ spins = s0
        /\ state = [d \in Descriptors |-> [a \in Actions |-> 0]]
        /\ key = 0
        /\ epsilon = 0
        /\ cost = 0
        /\ t = 0
        /\ i = 0
        /\ pc = "loop"
        /\ average_magnetization = [num |-> 0, den |-> 1]
        /\ sweep_positions = positions
        /\ sweep_spins = spins
        /\ frame = NoFrame
        /\ draws = {}
        /\ twin = TwinOf(positions, spins, state, key, 0, 0, "loop")
        /\ query = NoQuery

NeighborQuery ==
    /\ \E p \in Particles :
        query' = [valid |-> TRUE, i |-> p,
                  result |-> get_neighbors(p, positions, spins)]
    /\ UNCHANGED <<positions, spins, velocities, state, key, epsilon, cost,
                   t, i, pc, average_magnetization, sweep_positions,
                   sweep_spins, frame, draws, twin>>

NextQuery == NeighborQuery

SpecQuery == InitQuery /\ [][NextQuery]_vars

\* ==== properties ===========================================================
Abs(x) == IF x < 0 THEN -x ELSE x

\* the action a selection made, read off the spin it returned
ActionOf(old, new) == IF new = old THEN 0 ELSE 1

\* C1: after initialization and after every particle update, every entry of
\* spins is -1 or +1.
C1_SpinsArePlusMinusOne == \A j \in Particles : spins[j] \in {-1, 1}

C1_Witness ==
    /\ pc = "done"
    /\ frame.valid
    /\ spins[frame.i] = -frame.old_spin
    /\ spins # sweep_spins

\* C2: the cost handed to the Q update is 1 exactly when the particle has
\* fewer particles in range at the position it is actually moved to in that
\* update than it had before the move, and 0 otherwise.
C2_CostOfActualMove ==
    frame.valid =>
        cost = IF Len(get_neighbors(frame.i, positions, spins)) < frame.n_before
               THEN 1 ELSE 0

\* C3: the estimate update_Q moves toward the cost is the estimate of the
\* action chosen for the particle during cost evaluation.
C3_UpdateTargetsChosenAction ==
    frame.valid => frame.action = ActionOf(frame.old_spin, frame.new_spin)

\* C4: an exploring selection can return either action: keeping the spin and
\* flipping it are both possible outcomes.
C4_ExploreBothOutcomes ==
    (frame.valid /\ frame.explored1) =>
        frame.outcomes1 = {frame.old_spin, -frame.old_spin}

\* the particles within delta_x of particle p, both ends included, no wrap
InRange(p) == {j \in Particles : Abs(positions[j] - positions[p]) <= delta_x}

\* the n-th element of a set of indices in increasing order
Nth(R, n) == CHOOSE j \in R : Cardinality({k \in R : k < j}) = n - 1

\* the layout N=3, positions=[0.0, 0.5, 5.0]
PaperLayout ==
    /\ N = 3
    /\ positions[0] = 0
    /\ positions[1] = Scale \div 2
    /\ positions[2] = 5 * Scale

C6_PositionsInDomain == \A j \in Particles : 0 <= positions[j] /\ positions[j] < L

\* the spin of the minimum-cost action, the lowest index winning a tie
MinCostSpin(s, q) == IF q[1] < q[0] THEN -s ELSE s

\* C7: with epsilon = 0 no selection explores, and both selections of an
\* update return the spin of the minimum-cost action, action 0 (keep) on a tie.
C7_ZeroEpsilonGreedy ==
    (frame.valid /\ epsilon = 0) =>
        /\ ~frame.explored1
        /\ ~frame.explored2
        /\ frame.new_spin = MinCostSpin(frame.old_spin, frame.q_values)
        /\ spins[frame.i] = MinCostSpin(frame.old_spin, frame.q_values2)

C7_Witness ==
    /\ frame.valid
    /\ epsilon = 0
    /\ frame.q_values[0] = frame.q_values[1]
    /\ frame.new_spin = frame.old_spin
    /\ t > 0

\* what particle p sees in a sweep applied in place: the values assigned in
\* this sweep for j < p, the values of the start of the sweep for j >= p
InPlaceView(cur, snap, p) ==
    [j \in Particles |-> IF j < p THEN cur[j] ELSE snap[j]]

\* C8: within a sweep the updates are applied in place in index order: the
\* neighbor queries and the descriptor of particle i read the values already
\* assigned in this sweep for j < i and the previous sweep's values for j > i.
C8_InPlaceSweep ==
    frame.valid =>
        LET p == frame.i
            hp == InPlaceView(positions, sweep_positions, p)
            hs == InPlaceView(spins, sweep_spins, p)
        IN /\ frame.old_position = hp[p]
           /\ frame.old_spin = hs[p]
           /\ frame.n_before = Len(get_neighbors(p, hp, hs))
           /\ frame.state_input = descriptor(p, hp, hs)
           /\ frame.n_after =
                Len(get_neighbors(p, at_set(hp, p, frame.new_position),
                                  at_set(hs, p, frame.new_spin)))

C8_Witness ==
    /\ frame.valid
    /\ frame.i > 0
    /\ frame.n_before #
         Len(get_neighbors(frame.i, sweep_positions, sweep_spins))

Branches == {explores(u, epsilon) : u \in draws}

\* C10: the key is never advanced, so every draw of a run has the same value
\* and either every selection of the run explores or none does.
C10_OneBranchPerRun ==
    /\ Cardinality(draws) <= 1
    /\ Cardinality(Branches) <= 1

C10_Witness ==
    /\ pc = "done"
    /\ Branches = {TRUE}
    /\ Cardinality(draws) = 1

\* the cost cost_function returns for particle p on the arrays pos, sp when
\* the selection inside it returns the candidate spin c
CostWithCandidate(p, pos, sp, c) ==
    cost_function(p, pos, sp, velocities, state, DrawScale, 0, c).cost

====
